---- MODULE Spec2Model ----
(***************************************************************************)
(* A model of recipe_bot (src/bot.py): the Telegram handler handle_url,    *)
(* the download engine _sync_download with its temporary directory and     *)
(* cookie file, the sqlite quota table, and the URL classifier.            *)
(*                                                                         *)
(* Strings are sequences of one-character strings, so that Python's        *)
(* substring test (a in b), str.lower and urlparse are computed, not       *)
(* assumed.                                                                *)
(***************************************************************************)
EXTENDS Integers, Sequences, FiniteSets, TLC

(***************************************************************************)
(* Bounds of the model.                                                    *)
(***************************************************************************)
\* Number of updates (requests) the webhook delivers in one behaviour.
MaxRequests == 2
\* Longest list of ingredients, and of steps, in a recipe.
MaxItems == 2

(***************************************************************************)
(* Program constants.                                                      *)
(***************************************************************************)
\* bot.py:131, the default of the OWNER_ID environment variable.
OWNER_ID == 248610561
\* bot.py:132 reads FREE_LIMIT from the environment (default 6); the model
\* runs the deployment FREE_LIMIT=1, which keeps the limit within reach.
FREE_LIMIT == 1
\* bot.py:607, 50 * 1024 * 1024.
MAX_VIDEO_BYTES == 52428800

\* Python's None, for a text, for a path and for an info dict.
None == "None"
NoPath == << >>
NoText == << >>
NoInfo == [id |-> None, ext |-> None, duration |-> 0]
\* handle_url's local current_usage before get_quota_usage is called
NotRead == -1
\* no call of a pure function is under way
NoCall == [fn |-> None, arg |-> None, done |-> FALSE, res |-> None]

(***************************************************************************)
(* Text.                                                                   *)
(***************************************************************************)
S_https == <<"h","t","t","p","s",":","/","/">>
S_www == <<"w","w","w",".">>
S_instagram_com == <<"i","n","s","t","a","g","r","a","m",".","c","o","m">>
S_tiktok_com == <<"t","i","k","t","o","k",".","c","o","m">>
S_vm_tiktok_com == <<"v","m",".","t","i","k","t","o","k",".","c","o","m">>
S_vt_tiktok_com == <<"v","t",".","t","i","k","t","o","k",".","c","o","m">>
S_youtube_com == <<"y","o","u","t","u","b","e",".","c","o","m">>
S_youtu_be == <<"y","o","u","t","u",".","b","e">>
S_example_com == <<"e","x","a","m","p","l","e",".","c","o","m">>
S_reel == <<"/","r","e","e","l">>
S_p == <<"/","p","/">>
S_tv == <<"/","t","v","/">>
S_shorts == <<"/","s","h","o","r","t","s","/">>
S_shorts_nosl == <<"/","s","h","o","r","t","s">>
S_v_eq == <<"v","=">>
S_at == <<"/","@">>
S_t == <<"/","t","/">>
S_watch == <<"/","w","a","t","c","h">>
S_channel == <<"/","c","h","a","n","n","e","l","/">>
S_user == <<"/","u","s","e","r","/">>

UpperCase == <<"A","B","C","D","E","F","G","H","I","J","K","L","M",
               "N","O","P","Q","R","S","T","U","V","W","X","Y","Z">>
LowerCase == <<"a","b","c","d","e","f","g","h","i","j","k","l","m",
               "n","o","p","q","r","s","t","u","v","w","x","y","z">>
Digits == {"0","1","2","3","4","5","6","7","8","9"}

\* str.lower, one character.
LowerChar(c) ==
    IF \E i \in 1..26 : UpperCase[i] = c
    THEN LowerCase[CHOOSE i \in 1..26 : UpperCase[i] = c]
    ELSE c

\* str.lower
Lower(s) == [i \in 1..Len(s) |-> LowerChar(s[i])]

\* Python's  p in s  on strings.
Contains(s, p) ==
    \E i \in 0..(Len(s) - Len(p)) : SubSeq(s, i + 1, i + Len(p)) = p

\* str.find for one character, 1-based; 0 when absent.
Find(s, c) ==
    IF \E i \in 1..Len(s) : s[i] = c
    THEN CHOOSE i \in 1..Len(s) : s[i] = c /\ \A j \in 1..(i - 1) : s[j] # c
    ELSE 0

\* The first index at or after  from  holding one of  cs ; Len(s)+1 if none.
FindAny(s, cs, from) ==
    IF \E i \in from..Len(s) : s[i] \in cs
    THEN CHOOSE i \in from..Len(s) :
             s[i] \in cs /\ \A j \in from..(i - 1) : s[j] \notin cs
    ELSE Len(s) + 1

(***************************************************************************)
(* urllib.parse.urlparse as bot.py uses it: scheme, netloc, path, query.   *)
(***************************************************************************)
IsLetter(c) == \E i \in 1..26 : UpperCase[i] = c \/ LowerCase[i] = c
SchemeChar(c) == IsLetter(c) \/ c \in Digits \/ c \in {"+", "-", "."}

\* The index of the colon that ends a scheme, 0 when the text has no scheme.
SchemeEnd(s) ==
    LET i == Find(s, ":")
    IN IF i > 1 /\ IsLetter(s[1]) /\ \A j \in 1..(i - 1) : SchemeChar(s[j])
       THEN i ELSE 0

urlparse(s) ==
    LET se    == SchemeEnd(s)
        rest  == SubSeq(s, se + 1, Len(s))
        hasNl == Len(rest) >= 2 /\ rest[1] = "/" /\ rest[2] = "/"
        nlEnd == IF hasNl THEN FindAny(rest, {"/", "?", "#"}, 3) ELSE 1
        netl  == IF hasNl THEN SubSeq(rest, 3, nlEnd - 1) ELSE << >>
        tail  == SubSeq(rest, nlEnd, Len(rest))
        fr    == FindAny(tail, {"#"}, 1)
        noFr  == SubSeq(tail, 1, fr - 1)
        q     == FindAny(noFr, {"?"}, 1)
    IN [scheme |-> Lower(SubSeq(s, 1, se - 1)),
        netloc |-> netl,
        path   |-> SubSeq(noFr, 1, q - 1),
        query  |-> SubSeq(noFr, q + 1, Len(noFr))]

(***************************************************************************)
(* is_supported_url, bot.py:427-459.                                       *)
(***************************************************************************)
supported_patterns ==
    { S_instagram_com \o S_reel, S_instagram_com \o S_p, S_instagram_com \o S_tv,
      S_tiktok_com \o S_at, S_tiktok_com \o S_t, S_vm_tiktok_com, S_vt_tiktok_com,
      S_youtube_com \o S_shorts, S_youtu_be \o <<"/">>,
      S_youtube_com \o S_watch \o <<"?">> \o S_v_eq }

is_supported_url(url) ==
    LET parsed   == urlparse(Lower(url))
        domain   == Lower(parsed.netloc)
        path     == Lower(parsed.path)
        full_url == domain \o path
    IN IF domain \in {S_instagram_com, S_www \o S_instagram_com}
       THEN Contains(path, S_reel) \/ Contains(path, S_p) \/ Contains(path, S_tv)
       ELSE IF domain \in {S_tiktok_com, S_www \o S_tiktok_com,
                           S_vm_tiktok_com, S_vt_tiktok_com}
       THEN TRUE
       ELSE IF domain \in {S_youtube_com, S_www \o S_youtube_com,
                           S_youtu_be, S_www \o S_youtu_be}
       THEN \/ Contains(path, S_shorts)
            \/ Contains(domain, S_youtu_be)
            \/ Contains(parsed.query, S_v_eq)
       ELSE \E pattern \in supported_patterns : Contains(full_url, pattern)

(***************************************************************************)
(* Recipe text.  A character outside ASCII is written by a name: ru_r and  *)
(* RU_R are the Cyrillic er in lower and upper case, bullet is the bullet  *)
(* sign, emoji_pot the pot of food, backtick the grave accent.               *)
(***************************************************************************)
CyrUpper == <<"RU_A","RU_B","RU_V","RU_G","RU_D","RU_E","RU_YO","RU_ZH","RU_Z",
              "RU_I","RU_J","RU_K","RU_L","RU_M","RU_N","RU_O","RU_P","RU_R",
              "RU_S","RU_T","RU_U","RU_F","RU_H","RU_C","RU_CH","RU_SH",
              "RU_SHCH","RU_HARD","RU_Y","RU_SOFT","RU_EH","RU_YU","RU_YA">>
CyrLower == <<"ru_a","ru_b","ru_v","ru_g","ru_d","ru_e","ru_yo","ru_zh","ru_z",
              "ru_i","ru_j","ru_k","ru_l","ru_m","ru_n","ru_o","ru_p","ru_r",
              "ru_s","ru_t","ru_u","ru_f","ru_h","ru_c","ru_ch","ru_sh",
              "ru_shch","ru_hard","ru_y","ru_soft","ru_eh","ru_yu","ru_ya">>

\* str.upper, one character.
UpperChar(c) ==
    IF \E i \in 1..26 : LowerCase[i] = c
    THEN UpperCase[CHOOSE i \in 1..26 : LowerCase[i] = c]
    ELSE IF \E i \in 1..33 : CyrLower[i] = c
    THEN CyrUpper[CHOOSE i \in 1..33 : CyrLower[i] = c]
    ELSE c

\* str.upper
Upper(s) == [i \in 1..Len(s) |-> UpperChar(s[i])]

\* the characters \s matches and str.strip() removes
WhiteSpace == {" ", "\n", "\t", "\r"}

W_recept        == <<"ru_r","ru_e","ru_c","ru_e","ru_p","ru_t">>
W_ingredienty   == <<"ru_i","ru_n","ru_g","ru_r","ru_e","ru_d","ru_i","ru_e",
                     "ru_n","ru_t","ru_y">>
W_prigotovlenie == <<"ru_p","ru_r","ru_i","ru_g","ru_o","ru_t","ru_o","ru_v",
                     "ru_l","ru_e","ru_n","ru_i","ru_e">>
W_prig          == <<"ru_p","ru_r","ru_i","ru_g">>
W_dopolnitelno  == <<"ru_d","ru_o","ru_p","ru_o","ru_l","ru_n","ru_i","ru_t",
                     "ru_e","ru_l","ru_soft","ru_n","ru_o">>

MinOf(S) == CHOOSE x \in S : \A y \in S : x <= y
MaxOf(S) == CHOOSE x \in S : \A y \in S : x >= y

\* str.strip(chars)
StripChars(s, cs) ==
    LET keep == {i \in 1..Len(s) : s[i] \notin cs}
    IN IF keep = {} THEN << >> ELSE SubSeq(s, MinOf(keep), MaxOf(keep))

\* str.strip()
Strip(s) == StripChars(s, WhiteSpace)

\* str.split(c)
RECURSIVE Split(_, _)
Split(s, c) ==
    LET i == Find(s, c)
    IN IF i = 0 THEN <<s>>
       ELSE <<SubSeq(s, 1, i - 1)>> \o Split(SubSeq(s, i + 1, Len(s)), c)

\* str.join
RECURSIVE Join(_, _)
Join(ls, sep) ==
    IF Len(ls) = 0 THEN << >>
    ELSE IF Len(ls) = 1 THEN ls[1]
    ELSE ls[1] \o sep \o Join(Tail(ls), sep)

\* The first index at or after  from  not holding one of  cs ; Len(s)+1 if none.
SkipAll(s, cs, from) ==
    IF \E i \in from..Len(s) : s[i] \notin cs
    THEN MinOf({i \in from..Len(s) : s[i] \notin cs})
    ELSE Len(s) + 1

\* [Xx]rest : the word w stands at index i, its first letter in either case
HeaderAt(s, i, w) ==
    /\ i >= 1
    /\ i + Len(w) - 1 <= Len(s)
    /\ s[i] \in {w[1], UpperChar(w[1])}
    /\ SubSeq(s, i + 1, i + Len(w) - 1) = Tail(w)

\* \:?\** after the header word at i: the index that follows them
AfterHeader(s, i, w) ==
    LET a == i + Len(w)
        b == IF a <= Len(s) /\ s[a] = ":" THEN a + 1 ELSE a
    IN SkipAll(s, {"*"}, b)

(***************************************************************************)
(* escape_markdown_v2, bot.py:47-50.                                       *)
(***************************************************************************)
MD_RESERVED == {"\\","_","*","[","]","(",")","~","backtick",">","#","+","-","=","|",
                "{","}",".","!"}

\* ''.join over the characters, computed by halves
RECURSIVE escape_markdown_v2(_)
escape_markdown_v2(text) ==
    IF Len(text) = 0 THEN << >>
    ELSE IF Len(text) = 1
    THEN (IF text[1] \in MD_RESERVED THEN <<"\\", text[1]>> ELSE text)
    ELSE LET h == Len(text) \div 2
         IN escape_markdown_v2(SubSeq(text, 1, h))
            \o escape_markdown_v2(SubSeq(text, h + 1, Len(text)))

(***************************************************************************)
(* parse_recipe_blocks, bot.py:53-79.  Each regular expression is written  *)
(* as the search it performs: the leftmost start at which it matches, and  *)
(* the group it captures there.                                            *)
(***************************************************************************)
\* the characters the title group excludes, bot.py:62
TITLE_STOP == {"\n","*","_","-",":","[","]","(",")","~","backtick",">","#","+","=",
               "|","{","}",".","!"}
\* bot.py:64
TITLE_STRIP == {" ","*","_","-",":","[","]","(",")","~","backtick",">","#","+","=",
                "|","{","}",".","!"}
\* bot.py:68
INGR_STRIP == {"bullet","-","*","_","[","]","(",")","~","backtick",">","#","+","=",
               "|","{","}",".","!"}
\* bot.py:73
STEP_STRIP == Digits \cup {"."," ","*","_","-",":","[","]","(",")","~","backtick",
                           ">","#","+","=","|","{","}","!"}

\* bot.py:62-64: [Rr]ecept\:?\s*([^\n\*...]*)
ParseTitle(text) ==
    LET starts == {i \in 1..Len(text) : HeaderAt(text, i, W_recept)}
    IN IF starts = {} THEN << >>
       ELSE LET i == MinOf(starts)
                a == i + Len(W_recept)
                b == IF a <= Len(text) /\ text[a] = ":" THEN a + 1 ELSE a
                c == SkipAll(text, WhiteSpace, b)
                d == FindAny(text, TITLE_STOP, c)
            IN StripChars(SubSeq(text, c, d - 1), TITLE_STRIP)

\* (\n[Pp]rig|[\n\d]+\.) matches at index j
IngrEndAt(s, j) ==
    /\ j <= Len(s)
    /\ \/ s[j] = "\n" /\ HeaderAt(s, j + 1, W_prig)
       \/ /\ s[j] \in Digits \cup {"\n"}
          /\ LET e == SkipAll(s, Digits \cup {"\n"}, j)
             IN e <= Len(s) /\ s[e] = "."

\* (\n[Dd]opolnitelno|$) matches at index j
StepsEndAt(s, j) ==
    \/ j = Len(s) + 1
    \/ j = Len(s) /\ s[j] = "\n"
    \/ j <= Len(s) /\ s[j] = "\n" /\ HeaderAt(s, j + 1, W_dopolnitelno)

\* the header word w followed by \:?\**\n at index i: the index after the \n,
\* 0 when the text at i is not that
BodyStart(s, i, w) ==
    IF HeaderAt(s, i, w)
    THEN LET c == AfterHeader(s, i, w)
         IN IF c <= Len(s) /\ s[c] = "\n" THEN c + 1 ELSE 0
    ELSE 0

\* the non-blank lines of a group
NonBlankLines(ls) == SelectSeq(ls, LAMBDA l : Strip(l) # << >>)

\* bot.py:66-69
ParseIngredients(text) ==
    LET ends(g) == {j \in (g + 1)..Len(text) : IngrEndAt(text, j)}
        starts  == {i \in 1..Len(text) :
                       LET g == BodyStart(text, i, W_ingredienty)
                       IN g # 0 /\ ends(g) # {}}
    IN IF starts = {} THEN << >>
       ELSE LET g     == BodyStart(text, MinOf(starts), W_ingredienty)
                group == SubSeq(text, g, MinOf(ends(g)) - 1)
                ls    == NonBlankLines(Split(Strip(group), "\n"))
            IN [k \in 1..Len(ls) |-> Strip(StripChars(ls[k], INGR_STRIP))]

\* bot.py:71-74
ParseSteps(text) ==
    LET ends(g) == {j \in (g + 1)..(Len(text) + 1) : StepsEndAt(text, j)}
        starts  == {i \in 1..Len(text) :
                       LET g == BodyStart(text, i, W_prigotovlenie)
                       IN g # 0 /\ g <= Len(text)}
    IN IF starts = {} THEN << >>
       ELSE LET g     == BodyStart(text, MinOf(starts), W_prigotovlenie)
                group == SubSeq(text, g, MinOf(ends(g)) - 1)
                ls    == NonBlankLines(Split(group, "\n"))
            IN [k \in 1..Len(ls) |-> Strip(StripChars(ls[k], STEP_STRIP))]

\* bot.py:76-78
ParseExtra(text) ==
    LET starts == {i \in 1..Len(text) :
                      LET g == BodyStart(text, i, W_dopolnitelno)
                      IN g # 0 /\ g <= Len(text)}
    IN IF starts = {} THEN << >>
       ELSE Strip(SubSeq(text, BodyStart(text, MinOf(starts), W_dopolnitelno),
                         Len(text)))

parse_recipe_blocks(text) ==
    [title       |-> ParseTitle(text),
     ingredients |-> ParseIngredients(text),
     steps       |-> ParseSteps(text),
     extra       |-> ParseExtra(text)]

(***************************************************************************)
(* format_recipe_markdown, bot.py:81-108.                                  *)
(***************************************************************************)
\* the bold marker of the title written with an escape
MD_TITLE_OPEN_escaped == <<"emoji_pot"," ","\\","*">>
MD_TITLE_OPEN == <<"emoji_pot"," ","*">>
MD_INGR_HEAD  == <<"\n","emoji_cart"," ","*","RU_I","ru_n","ru_g","ru_r","ru_e",
                   "ru_d","ru_i","ru_e","ru_n","ru_t","ru_y","*">>
MD_BULLET     == <<"bullet"," ">>
MD_RULE       == <<"\n","_","_","_","_","_">>
MD_STEPS_HEAD == <<"emoji_man","zwj","emoji_cooking"," ","*","RU_SH","ru_a",
                   "ru_g","ru_i"," ","ru_p","ru_r","ru_i","ru_g","ru_o","ru_t",
                   "ru_o","ru_v","ru_l","ru_e","ru_n","ru_i","ru_ya","*">>
MD_EXTRA_HEAD == <<"emoji_bulb"," ","*","RU_D","ru_o","ru_p","ru_o","ru_l",
                   "ru_n","ru_i","ru_t","ru_e","ru_l","ru_soft","ru_n","ru_o",
                   "*","\n">>
MD_EXTRA_RULE == <<"\n","\n","_","_","_","_","_">>
MD_LINK_OPEN  == <<"[","RU_O","ru_r","ru_i","ru_g","ru_i","ru_n","ru_a","ru_l",
                   "]","(">>

DigitChars == <<"0","1","2","3","4","5","6","7","8","9">>

\* str(n) of a natural number
RECURSIVE DecStr(_)
DecStr(n) ==
    IF n < 10 THEN <<DigitChars[n + 1]>>
    ELSE DecStr(n \div 10) \o <<DigitChars[(n % 10) + 1]>>

format_recipe_markdown(blocks, original_url, duration) ==
    LET title == IF blocks.title # << >>
                 THEN << MD_TITLE_OPEN \o escape_markdown_v2(Upper(blocks.title))
                         \o <<"*">> >>
                 ELSE << >>
        ingr  == IF blocks.ingredients # << >>
                 THEN <<MD_INGR_HEAD>>
                      \o [k \in 1..Len(blocks.ingredients) |->
                             MD_BULLET \o escape_markdown_v2(blocks.ingredients[k])]
                      \o <<MD_RULE>>
                 ELSE << >>
        steps == IF blocks.steps # << >>
                 THEN <<MD_STEPS_HEAD>>
                      \o [k \in 1..Len(blocks.steps) |->
                             DecStr(k) \o <<".", " ">>
                             \o escape_markdown_v2(blocks.steps[k])]
                      \o <<MD_RULE>>
                 ELSE << >>
        extra == IF blocks.extra # << >>
                 THEN << MD_EXTRA_HEAD \o escape_markdown_v2(blocks.extra)
                         \o MD_EXTRA_RULE >>
                 ELSE << >>
        orig  == IF original_url # << >>
                 THEN << MD_LINK_OPEN \o original_url \o <<")">>
                         \o (IF duration # << >>
                             THEN <<" ">> \o escape_markdown_v2(
                                                 <<"(">> \o duration \o <<")">>)
                             ELSE << >>) >>
                 ELSE << >>
    IN Join(title \o ingr \o steps \o extra \o orig, <<"\n">>)

(***************************************************************************)
(* Configuration read from the environment at import, bot.py:121-132.      *)
(* content: the platforms whose *_COOKIES_CONTENT is non-empty;            *)
(* files:   the platforms whose *_COOKIES_FILE exists on disk.             *)
(***************************************************************************)
Platforms == {"instagram", "tiktok", "youtube"}

Configs ==
    { [content |-> {},            files |-> {}],
      [content |-> {"instagram"}, files |-> {"youtube"}] }

(***************************************************************************)
(* The inputs of a behaviour.                                              *)
(***************************************************************************)
Requests == 1..MaxRequests

UserIds == {OWNER_ID, 1}

URL_REEL    == S_https \o S_www \o S_instagram_com \o S_reel \o <<"/", "a">>
URL_SHORTS  == S_https \o S_youtube_com \o S_shorts \o <<"b">>
URL_EXAMPLE == S_https \o S_example_com \o <<"/", "v">>

\* The URLs given to is_supported_url and get_ydl_opts, each made of a
\* scheme, a host, a path and a query, any of which may be missing.
UrlSchemes == {<< >>, S_https}
UrlHosts   == {S_instagram_com, S_www \o S_instagram_com, S_tiktok_com,
               S_vm_tiktok_com, S_youtube_com, S_youtu_be, S_example_com}
UrlPaths   == {<< >>, S_reel \o <<"/", "a">>, S_p \o <<"a">>, S_user,
               S_shorts \o <<"b">>, S_channel \o <<"1">>, S_watch,
               S_at \o <<"u">>, <<"/">> \o S_instagram_com \o S_reel}
UrlQueries == {<< >>, <<"?">> \o S_v_eq \o <<"d">>,
               <<"?", "u", "=">> \o S_instagram_com}
UrlParts   == [scheme : UrlSchemes, host : UrlHosts, path : UrlPaths,
               query : UrlQueries]
UrlOf(p)   == p.scheme \o p.host \o p.path \o p.query

\* The contents of recipes: titles, ingredient lines, step lines, extra texts.
T_soup       == <<"RU_S","ru_u","ru_p">>
T_soup_puree == <<"RU_S","ru_u","ru_p","-","ru_p","ru_yu","ru_r","ru_e">>
I_salt       == <<"ru_s","ru_o","ru_l","ru_soft">>
I_flour      == <<"ru_m","ru_u","ru_k","ru_a"," ","1",".","5"," ","ru_k","ru_g">>
I_egg        == <<"ru_ya","ru_j","ru_c","ru_o"," ","emdash"," ","1"," ","ru_sh",
                 "ru_t",".">>
P_mix        == <<"ru_s","ru_m","ru_e","ru_sh","ru_a","ru_t","ru_soft">>
P_beat       == <<"2"," ","ru_ya","ru_j","ru_c","ru_a"," ","ru_v","ru_z","ru_b",
                 "ru_i","ru_t","ru_soft">>
P_boil       == <<"ru_v","ru_a","ru_r","ru_i","ru_t","ru_soft"," ","(","1","0",
                 " ","ru_m","ru_i","ru_n",".",")">>
E_serve      == <<"RU_P","ru_o","ru_d","ru_a","ru_v","ru_a","ru_j","ru_t","ru_e",
                 " ","ru_s","ru_o"," ","ru_s","ru_m","ru_e","ru_t","ru_a","ru_n",
                 "ru_o","ru_j","!">>

Titles == {<< >>, T_soup, T_soup_puree}
Items  == {I_salt, I_flour, I_egg}
Steps  == {P_mix, P_beat, P_boil}
Extras == {<< >>, E_serve}

\* the sequences over S of length at most n
SeqsUpTo(S, n) == UNION {[1..k -> S] : k \in 0..n}

\* the blocks given to the renderer and written out as text for the parser
BlocksIn ==
    [title : Titles, ingredients : SeqsUpTo(Items, MaxItems),
     steps : SeqsUpTo(Steps, MaxItems), extra : Extras]

\* The longest text the transport takes in one message (reply_text,
\* bot.py:650-654).
MAX_MESSAGE_LENGTH == 4096

\* an extra text that fills a message by itself, and a recipe that holds it
E_long == [i \in 1..MAX_MESSAGE_LENGTH |-> "ru_a"]

LongBlocks ==
    {[title |-> T_soup, ingredients |-> <<I_salt>>, steps |-> <<P_mix>>,
      extra |-> E_long]}

\* a header word with its first letter in upper case
Cap(w) == <<UpperChar(w[1])>> \o Tail(w)

\* The text of blocks under well-formed headers, laid out as the text of
\* src/tests/test_parsing.py:47-63; an empty section is left out.
WellFormedText(b) ==
    LET title == IF b.title # << >>
                 THEN Cap(W_recept) \o <<":", " ">> \o b.title \o <<"\n", "\n">>
                 ELSE << >>
        ingr  == IF b.ingredients # << >>
                 THEN Cap(W_ingredienty) \o <<":", "\n">>
                      \o Join([k \in 1..Len(b.ingredients) |->
                                  <<"-", " ">> \o b.ingredients[k] \o <<"\n">>],
                              << >>)
                      \o <<"\n">>
                 ELSE << >>
        steps == IF b.steps # << >>
                 THEN Cap(W_prigotovlenie) \o <<":", "\n">>
                      \o Join([k \in 1..Len(b.steps) |->
                                  DecStr(k) \o <<".", " ">> \o b.steps[k]
                                  \o <<"\n">>],
                              << >>)
                      \o <<"\n">>
                 ELSE << >>
        extra == IF b.extra # << >>
                 THEN Cap(W_dopolnitelno) \o <<":", "\n">> \o b.extra
                 ELSE << >>
    IN title \o ingr \o steps \o extra

\* the source URL and the duration label given to the renderer
SOURCE_URL     == S_https \o S_youtu_be \o <<"/", "a", "_", "b">>
DURATION_LABEL == <<"6","0"," ","ru_s","ru_e","ru_k",".">>

\* the message texts sent to the handler
HandlerUrls == {URL_REEL, URL_EXAMPLE}

\* Sizes of a downloaded file, on both sides of the 50 MB ceiling.
FileSizes == {MAX_VIDEO_BYTES, MAX_VIDEO_BYTES + 1}

\* Messages of yt-dlp's DownloadError, lower-cased by bot.py:343.
MSG_private   == <<"p","r","i","v","a","t","e"," ","v","i","d","e","o">>
MSG_login     == <<"l","o","g","i","n"," ","r","e","q","u","i","r","e","d">>
MSG_removed   == <<"v","i","d","e","o"," ","r","e","m","o","v","e","d">>
MSG_geo       == <<"g","e","o"," ","r","e","s","t","r","i","c","t","e","d">>
MSG_copyright == <<"c","o","p","y","r","i","g","h","t"," ","c","l","a","i","m">>
MSG_fail      == <<"f","a","i","l">>

DownloadErrorMsgs ==
    {MSG_private, MSG_login, MSG_removed, MSG_geo, MSG_copyright, MSG_fail}

VARIABLES
    cfg,            \* the configuration of this run, one of Configs
    quota,          \* table quota of bot.db: uid -> n, for the rows that exist
    pc,             \* where each request's handler stands
    req,            \* the update of each request: uid and message text
    current_usage,  \* handle_url's local current_usage
    fetchCalls,     \* calls of download_video made for each request
    sent,           \* the messages sent to the requester, in order
    fs,             \* the local filesystem: path -> size in bytes
    opts,           \* the yt-dlp options _sync_download built
    ret,            \* what _sync_download returned
    error_msg,      \* _sync_download's local error_msg, until the caller resumes
    fetched,        \* history: the size of the video file the download wrote
    md,             \* handle_url's local md, the text message to send
    recipe,         \* handle_url's local recipe, the text extract_recipe_from_video returned
    attempts,       \* history: calls of ydl.extract_info(url, download=True)
    call            \* a call of one of the pure functions: its name, argument, result

vars == <<cfg, quota, pc, req, current_usage, fetchCalls, sent, fs, opts, ret,
          error_msg, fetched, md, recipe, attempts, call>>

(***************************************************************************)
(* The filesystem.                                                         *)
(***************************************************************************)
TempDir(r)    == <<"tmp", r>>
CookiePath(r) == <<"cookie", r>>
\* outtmpl, bot.py:298: temp_dir / "%(id)s.%(ext)s"
ExpectedFile(r) == <<"tmp", r, "vid.mp4">>
\* another file of the directory with a video suffix, bot.py:333-336
OtherFile(r)    == <<"tmp", r, "vid.mkv">>
\* a file of the directory without a video suffix
PartFile(r)     == <<"tmp", r, "vid.part">>

Exists(f, p) == p \in DOMAIN f

\* p is d or lies below d
Under(p, d) == Len(p) >= Len(d) /\ SubSeq(p, 1, Len(d)) = d

WriteFile(f, p, size) == [q \in DOMAIN f \cup {p} |-> IF q = p THEN size ELSE f[q]]

Remove(f, ps) == [q \in DOMAIN f \ ps |-> f[q]]

\* shutil.rmtree(d, ignore_errors=True) that meets no error
rmtree(f, d) == Remove(f, {p \in DOMAIN f : Under(p, d)})

\* Path.unlink(missing_ok=True)
unlink(f, p) == Remove(f, {p})

\* the handler's variables; call is the one besides them
handlerVars == <<cfg, quota, pc, req, current_usage, fetchCalls, sent, fs, opts,
                 ret, error_msg, fetched, md, recipe, attempts>>

\* the bot after start-up: no update received yet
HandlerInit ==
    /\ cfg \in Configs
    /\ quota = << >>
    /\ pc = [r \in Requests |-> "idle"]
    /\ req = [r \in Requests |-> None]
    /\ current_usage = [r \in Requests |-> NotRead]
    /\ fetchCalls = [r \in Requests |-> 0]
    /\ sent = [r \in Requests |-> << >>]
    /\ fs = << >>
    /\ opts = [r \in Requests |-> None]
    /\ ret = [r \in Requests |-> <<NoPath, NoInfo>>]
    /\ error_msg = [r \in Requests |-> NoText]
    /\ fetched = [r \in Requests |-> 0]
    /\ md = [r \in Requests |-> None]
    /\ recipe = [r \in Requests |-> NoText]
    /\ attempts = [r \in Requests |-> 0]

Init == HandlerInit /\ call = NoCall

(***************************************************************************)
(* The quota table, bot.py:156-172.                                        *)
(***************************************************************************)
\* SELECT n FROM quota WHERE uid=? ; 0 when the row is missing
get_quota_usage(q, uid) == IF uid \in DOMAIN q THEN q[uid] ELSE 0

\* INSERT OR REPLACE INTO quota(uid,n) VALUES(uid, current + 1)
increment_quota(q, uid) ==
    [u \in DOMAIN q \cup {uid} |->
        IF u = uid THEN get_quota_usage(q, uid) + 1 ELSE q[u]]

\* the comparison of bot.py:531 written with > for >=
LimitReached_strict(uid, usage) == uid # OWNER_ID /\ usage > FREE_LIMIT

\* bot.py:529-531: the request is turned away with the limit notice
LimitReached(uid, usage) == uid # OWNER_ID /\ usage >= FREE_LIMIT

(***************************************************************************)
(* get_ydl_opts, bot.py:188-284: the platform branch taken and the origin  *)
(* of the cookiefile option; create_temp_cookies_file (bot.py:174-186)     *)
(* writes the configured content to a fresh file and returns its path.     *)
(***************************************************************************)
PlatformBranch(url) ==
    IF Contains(url, S_instagram_com) THEN "instagram"
    ELSE IF Contains(url, S_tiktok_com) \/ Contains(url, S_vm_tiktok_com)
            \/ Contains(url, S_vt_tiktok_com) THEN "tiktok"
    ELSE IF Contains(url, S_youtube_com) \/ Contains(url, S_youtu_be)
    THEN LET parsed == urlparse(url)
         IN IF \/ Contains(parsed.netloc, S_youtu_be)
               \/ Contains(parsed.path, S_shorts_nosl)
               \/ Contains(parsed.netloc, S_youtube_com)
            THEN "youtube" ELSE "none"
    ELSE "none"

\* the alternatives of opts["format"], bot.py:193, 226, 243, 262, 273
FormatLadder(platform) ==
    IF platform \in {"instagram", "tiktok"}
    THEN <<"best[height<=720]", "best">>
    ELSE <<"best[height<=720]", "best[ext=mp4]", "best">>

get_ydl_opts(url, c, r) ==
    LET b == PlatformBranch(url)
    IN [platform   |-> b,
        cookiefile |->
            IF b \in c.content
            THEN CookiePath(r)
            ELSE IF b \in c.files THEN <<"cookies", b>>
            ELSE NoPath]

\* the temporary cookie file get_ydl_opts leaves on disk
TempCookies(o, r) == IF o.cookiefile = CookiePath(r) THEN {CookiePath(r)} ELSE {}

(***************************************************************************)
(* _sync_download, bot.py:291-372.                                         *)
(***************************************************************************)
\* bot.py:347-356, what the except DownloadError branch writes to the log
ClassifyDownloadError(m) ==
    IF Contains(m, <<"p","r","i","v","a","t","e">>)
       \/ Contains(m, <<"l","o","g","i","n">>)
    THEN "private_or_auth"
    ELSE IF Contains(m, <<"n","o","t"," ","a","v","a","i","l","a","b","l","e">>)
            \/ Contains(m, <<"r","e","m","o","v","e","d">>)
    THEN "removed"
    ELSE IF Contains(m, <<"g","e","o">>)
            \/ Contains(m, <<"c","o","u","n","t","r","y">>)
    THEN "geo"
    ELSE IF Contains(m, <<"c","o","p","y","r","i","g","h","t">>)
    THEN "copyright"
    ELSE "unknown"

\* the info dict of a video, as far as the handler reads it; duration in seconds
VideoInfo(duration) == [id |-> "vid", ext |-> "mp4", duration |-> duration]

\* What yt-dlp does with one URL.
\*   download_error: extract_info raises DownloadError(msg): the first call
\*                   (download=False), or the second after leaving a partial file
\*   error:          another exception raised by the second call
\*   no_info:        the first extract_info returns nothing
\*   ok:             the download writes one file: at the expected path, at
\*                   another path with a video suffix, or with no video suffix
YdlOutcomes ==
    [kind : {"download_error"}, msg : DownloadErrorMsgs, partial : {FALSE}]
    \cup {[kind |-> "download_error", msg |-> MSG_fail, partial |-> TRUE]}
    \cup [kind : {"error", "no_info"}]
    \cup [kind : {"ok"}, at : {"expected"}, size : FileSizes, duration : {60}]
    \cup [kind : {"ok"}, at : {"expected"}, size : {MAX_VIDEO_BYTES}, duration : {600}]
    \cup [kind : {"ok"}, at : {"other", "part"}, size : {MAX_VIDEO_BYTES},
          duration : {60}]

\* the calls of ydl.extract_info(url, download=True) the outcome went through,
\* bot.py:317: there is one such call in _sync_download, and no loop around it
DownloadCalls(out) ==
    IF out.kind = "no_info" \/ (out.kind = "download_error" /\ ~out.partial)
    THEN 0 ELSE 1

\* the files the outcome leaves in the temporary directory
YdlWrites(f, r, out) ==
    IF out.kind = "download_error"
    THEN (IF out.partial THEN WriteFile(f, PartFile(r), 1) ELSE f)
    ELSE IF out.kind = "ok"
    THEN WriteFile(f, CASE out.at = "expected" -> ExpectedFile(r)
                        [] out.at = "other"    -> OtherFile(r)
                        [] out.at = "part"     -> PartFile(r), out.size)
    ELSE f

\* The ceiling of the duration policy, in seconds.
MAX_DURATION == 120

\* the value of the return statement reached, bot.py:311, 326, 336, 340, 358, 362
SyncDownloadResult(r, out) ==
    IF out.kind = "ok" /\ out.at = "expected"
    THEN <<ExpectedFile(r), VideoInfo(out.duration)>>
    ELSE IF out.kind = "ok" /\ out.at = "other"
    THEN <<OtherFile(r), VideoInfo(out.duration)>>
    ELSE <<NoPath, NoInfo>>

\* bot.py:343: error_msg = str(e).lower()
SyncDownloadErrorMsg(out) ==
    IF out.kind = "download_error" THEN Lower(out.msg) ELSE NoText

\* the finally block written with os.rmdir, which removes an empty directory only
SyncDownloadCleanup_rmdir(f, r) ==
    IF \E p \in DOMAIN f : p # TempDir(r) /\ Under(p, TempDir(r))
    THEN f ELSE unlink(f, TempDir(r))

\* the finally block, bot.py:367-372
SyncDownloadCleanup(f, r) == rmtree(f, TempDir(r))

(***************************************************************************)
(* handle_url, bot.py:505-684, one action for each stretch of code that    *)
(* runs between two awaits.                                                *)
(***************************************************************************)
Say(r, m) == sent' = [sent EXCEPT ![r] = Append(@, m)]

\* telegram_webhook, bot.py:697-700: an update arrives and its handler starts,
\* whatever the handlers of earlier updates are doing.
Receive(r, uid, url) ==
    /\ pc[r] = "idle"
    /\ r > 1 => pc[r - 1] # "idle"
    /\ req' = [req EXCEPT ![r] = [uid |-> uid, url |-> url]]
    /\ pc' = [pc EXCEPT ![r] = "start"]
    /\ UNCHANGED <<cfg, quota, current_usage, fetchCalls, sent, fs, opts, ret,
                   error_msg, fetched, md>>
    /\ UNCHANGED <<recipe, attempts, call>>

\* bot.py:507-510
SendProgress(r) ==
    /\ pc[r] = "start"
    /\ Say(r, "progress")
    /\ pc' = [pc EXCEPT ![r] = "classify"]
    /\ UNCHANGED <<cfg, quota, req, current_usage, fetchCalls, fs, opts, ret,
                   error_msg, fetched, md>>
    /\ UNCHANGED <<recipe, attempts, call>>

\* the handler reading the usage count before it looks at the URL
Classify_quotaFirst(r) ==
    /\ pc[r] = "classify"
    /\ LET uid   == req[r].uid
           usage == get_quota_usage(quota, uid)
       IN /\ current_usage' =
                 [current_usage EXCEPT ![r] = IF uid # OWNER_ID THEN usage ELSE @]
          /\ IF ~is_supported_url(req[r].url)
             THEN /\ Say(r, "unsupported")
                  /\ pc' = [pc EXCEPT ![r] = "done"]
             ELSE IF LimitReached(uid, usage)
             THEN /\ Say(r, "limit")
                  /\ pc' = [pc EXCEPT ![r] = "done"]
             ELSE /\ pc' = [pc EXCEPT ![r] = "download"]
                  /\ UNCHANGED sent
    /\ UNCHANGED <<cfg, quota, req, fetchCalls, fs, opts, ret, error_msg, fetched, md>>
    /\ UNCHANGED <<recipe, attempts, call>>

\* bot.py:513-539: the URL check, the quota check, and the await that follows
Classify(r) ==
    /\ pc[r] = "classify"
    /\ LET uid   == req[r].uid
           usage == get_quota_usage(quota, uid)
       IN IF ~is_supported_url(req[r].url)
          THEN /\ Say(r, "unsupported")
               /\ pc' = [pc EXCEPT ![r] = "done"]
               /\ UNCHANGED current_usage
          ELSE /\ current_usage' =
                      [current_usage EXCEPT ![r] = IF uid # OWNER_ID THEN usage ELSE @]
               /\ IF LimitReached(uid, usage)
                  THEN /\ Say(r, "limit")
                       /\ pc' = [pc EXCEPT ![r] = "done"]
                  ELSE /\ pc' = [pc EXCEPT ![r] = "download"]
                       /\ UNCHANGED sent
    /\ UNCHANGED <<cfg, quota, req, fetchCalls, fs, opts, ret, error_msg, fetched, md>>
    /\ UNCHANGED <<recipe, attempts, call>>

\* bot.py:542-557, 286-301: download_video is called; in the executor thread
\* _sync_download makes its directory and builds the options.
CallDownload(r) ==
    /\ pc[r] = "download"
    /\ fetchCalls' = [fetchCalls EXCEPT ![r] = @ + 1]
    /\ LET o == get_ydl_opts(req[r].url, cfg, r)
       IN /\ opts' = [opts EXCEPT ![r] = o]
          /\ fs' = [p \in DOMAIN fs \cup {TempDir(r)} \cup TempCookies(o, r) |->
                        IF p \in DOMAIN fs THEN fs[p] ELSE 0]
    /\ pc' = [pc EXCEPT ![r] = "sd_extract"]
    /\ UNCHANGED <<cfg, quota, req, current_usage, sent, ret, error_msg, fetched, md>>
    /\ UNCHANGED <<recipe, attempts, call>>

\* bot.py:303-366: the with YoutubeDL block, up to the return statement
SyncDownloadExtract(r, out) ==
    /\ pc[r] = "sd_extract"
    /\ fs' = YdlWrites(fs, r, out)
    /\ ret' = [ret EXCEPT ![r] = SyncDownloadResult(r, out)]
    /\ error_msg' = [error_msg EXCEPT ![r] = SyncDownloadErrorMsg(out)]
    /\ fetched' = [fetched EXCEPT ![r] =
                      IF SyncDownloadResult(r, out)[1] # NoPath THEN out.size ELSE 0]
    /\ attempts' = [attempts EXCEPT ![r] = @ + DownloadCalls(out)]
    /\ pc' = [pc EXCEPT ![r] = "sd_finally"]
    /\ UNCHANGED <<cfg, quota, req, current_usage, fetchCalls, sent, opts, md>>
    /\ UNCHANGED <<recipe, call>>

\* bot.py:367-372 and the return to handle_url
SyncDownloadFinally(r) ==
    /\ pc[r] = "sd_finally"
    /\ fs' = SyncDownloadCleanup(fs, r)
    /\ pc' = [pc EXCEPT ![r] = "returned"]
    /\ UNCHANGED <<cfg, quota, req, current_usage, fetchCalls, sent, opts, ret,
                   error_msg, fetched, md>>
    /\ UNCHANGED <<recipe, attempts, call>>

\* bot.py:559-618: the branch taken on the result, up to its first await
DownloadVerdict(f, result) ==
    IF result[1] = NoPath \/ ~Exists(f, result[1]) THEN "download_failed"
    ELSE IF result[2] = NoInfo THEN "no_info"
    ELSE IF f[result[1]] > MAX_VIDEO_BYTES THEN "too_big"
    ELSE "send"

CheckDownload(r) ==
    /\ pc[r] = "returned"
    /\ LET v == DownloadVerdict(fs, ret[r])
       IN IF v = "send"
          THEN /\ pc' = [pc EXCEPT ![r] = "send_video"]
               /\ UNCHANGED sent
          ELSE /\ Say(r, v)
               /\ pc' = [pc EXCEPT ![r] =
                            IF v = "too_big" THEN "toobig_fallback" ELSE "fail_fallback"]
    /\ error_msg' = [error_msg EXCEPT ![r] = NoText]
    /\ UNCHANGED <<cfg, quota, req, current_usage, fetchCalls, fs, opts, ret,
                   fetched, md>>
    /\ UNCHANGED <<recipe, attempts, call>>

\* the failure branch returning right after its notice, without bot.py:585-589
SendFailFallback_silent(r) ==
    /\ pc[r] = "fail_fallback"
    /\ pc' = [pc EXCEPT ![r] = "done"]
    /\ UNCHANGED <<cfg, quota, req, current_usage, fetchCalls, sent, fs, opts, ret,
                   error_msg, fetched, md>>
    /\ UNCHANGED <<recipe, attempts, call>>

\* bot.py:585-590, 598-603
SendFailFallback(r) ==
    /\ pc[r] = "fail_fallback"
    /\ Say(r, "fallback_md")
    /\ pc' = [pc EXCEPT ![r] = "done"]
    /\ UNCHANGED <<cfg, quota, req, current_usage, fetchCalls, fs, opts, ret,
                   error_msg, fetched, md>>
    /\ UNCHANGED <<recipe, attempts, call>>

\* bot.py:612-618: the oversized file is unlinked and the fallback text sent
TooBigFallback(r) ==
    /\ pc[r] = "toobig_fallback"
    /\ fs' = unlink(fs, ret[r][1])
    /\ Say(r, "fallback_md")
    /\ pc' = [pc EXCEPT ![r] = "done"]
    /\ UNCHANGED <<cfg, quota, req, current_usage, fetchCalls, opts, ret,
                   error_msg, fetched, md>>
    /\ UNCHANGED <<recipe, attempts, call>>

\* bot.py:620-626
SendVideo(r) ==
    /\ pc[r] = "send_video"
    /\ Say(r, "video")
    /\ pc' = [pc EXCEPT ![r] = "extract"]
    /\ UNCHANGED <<cfg, quota, req, current_usage, fetchCalls, fs, opts, ret,
                   error_msg, fetched, md>>
    /\ UNCHANGED <<recipe, attempts, call>>

\* bot.py:420, 424: the texts returned in place of a recipe; each starts
\* with the robot sign
PLACEHOLDER_EMPTY ==
    <<  "emoji_robot"," ","RU_N","ru_e"," ","ru_u","ru_d","ru_a",
        "ru_l","ru_o","ru_s","ru_soft"," ","ru_i","ru_z","ru_v",
        "ru_l","ru_e","ru_ch","ru_soft"," ","ru_r","ru_e","ru_c",
        "ru_e","ru_p","ru_t"," ","ru_i","ru_z"," ","ru_v","ru_i",
        "ru_d","ru_e","ru_o","." >>
PLACEHOLDER_ERROR ==
    <<  "emoji_robot"," ","RU_O","ru_sh","ru_i","ru_b","ru_k",
        "ru_a"," ","ru_p","ru_r","ru_i"," ","ru_i","ru_z","ru_v",
        "ru_l","ru_e","ru_ch","ru_e","ru_n","ru_i","ru_i"," ",
        "ru_r","ru_e","ru_c","ru_e","ru_p","ru_t","ru_a","."," ",
        "RU_P","ru_o","ru_p","ru_r","ru_o","ru_b","ru_u","ru_j",
        "ru_t","ru_e"," ","ru_p","ru_o","ru_z","ru_zh","ru_e","." >>

\* bot.py:403: the answer the prompt prescribes for a video without a recipe
ANSWER_NO_RECIPE ==
    <<  "RU_V"," ","ru_eh","ru_t","ru_o","ru_m"," ","ru_v","ru_i",
        "ru_d","ru_e","ru_o"," ","ru_n","ru_e","ru_t"," ","ru_r",
        "ru_e","ru_c","ru_e","ru_p","ru_t","ru_a","." >>
\* an answer in the format the prompt prescribes, bot.py:391-401
ANSWER_RECIPE ==
    <<  "emoji_memo"," ","*","*","RU_R","ru_e","ru_c","ru_e","ru_p",
        "ru_t",":"," ","RU_S","ru_u","ru_p","*","*","\n","\n",
        "emoji_pan"," ","*","*","RU_I","ru_n","ru_g","ru_r","ru_e",
        "ru_d","ru_i","ru_e","ru_n","ru_t","ru_y",":","*","*","\n",
        "bullet"," ","ru_s","ru_o","ru_l","ru_soft","\n","\n",
        "emoji_man","zwj","emoji_cooking"," ","*","*","RU_P","ru_r",
        "ru_i","ru_g","ru_o","ru_t","ru_o","ru_v","ru_l","ru_e",
        "ru_n","ru_i","ru_e",":","*","*","\n","1","."," ","ru_v",
        "ru_a","ru_r","ru_i","ru_t","ru_soft","\n" >>
\* an answer that is blank
ANSWER_BLANK ==
    <<  " ","\n" >>
\* an answer without any of the header words
ANSWER_CHATTER ==
    <<  "RU_EH","ru_t","ru_o"," ","ru_v","ru_i","ru_d","ru_e",
        "ru_o"," ","ru_o"," ","ru_m","ru_o","ru_r","ru_e","." >>

ModelAnswers == {ANSWER_BLANK, ANSWER_NO_RECIPE, ANSWER_RECIPE, ANSWER_CHATTER}

\* What the call of the language model does: it answers, or it raises.
RecipeOutcomes == [kind : {"answer"}, text : ModelAnswers] \cup {[kind |-> "raises"]}

\* extract_recipe_from_video, bot.py:374-425, for a video with a description
extract_recipe_from_video(out) ==
    IF out.kind = "raises" THEN PLACEHOLDER_ERROR
    ELSE IF Strip(out.text) = << >> THEN PLACEHOLDER_EMPTY
    ELSE Strip(out.text)

\* str.startswith
StartsWith(s, p) == Len(s) >= Len(p) /\ SubSeq(s, 1, Len(p)) = p

\* bot.py:634-637, without the test for the robot sign
RecipeInvalid_noRobotTest(text) ==
    LET blocks == parse_recipe_blocks(text)
    IN \/ text = << >>
       \/ blocks.title = << >> /\ blocks.ingredients = << >> /\ blocks.steps = << >>

\* bot.py:634-637: invalid
RecipeInvalid(text) ==
    LET blocks == parse_recipe_blocks(text)
    IN \/ text = << >>
       \/ StartsWith(Strip(text), <<"emoji_robot">>)
       \/ blocks.title = << >> /\ blocks.ingredients = << >> /\ blocks.steps = << >>

\* bot.py:638-645: the text to send
ChooseMd(text) == IF RecipeInvalid(text) THEN "fallback_md" ELSE "recipe_md"

\* bot.py:628-648
ExtractRecipe(r, out) ==
    /\ pc[r] = "extract"
    /\ recipe' = [recipe EXCEPT ![r] = extract_recipe_from_video(out)]
    /\ md' = [md EXCEPT ![r] = ChooseMd(extract_recipe_from_video(out))]
    /\ pc' = [pc EXCEPT ![r] = "send_recipe"]
    /\ UNCHANGED <<cfg, quota, req, current_usage, fetchCalls, sent, fs, opts,
                   ret, error_msg, fetched>>
    /\ UNCHANGED <<attempts, call>>

\* bot.py:656-658
CommitQuota(q, uid) == IF uid # OWNER_ID THEN increment_quota(q, uid) ELSE q

\* bot.py:650-661: the text is sent, the usage counted, the file unlinked
SendRecipe(r) ==
    /\ pc[r] = "send_recipe"
    /\ Say(r, md[r])
    /\ quota' = CommitQuota(quota, req[r].uid)
    /\ fs' = unlink(fs, ret[r][1])
    /\ pc' = [pc EXCEPT ![r] = "done"]
    /\ UNCHANGED <<cfg, req, current_usage, fetchCalls, opts, ret, error_msg, fetched, md>>
    /\ UNCHANGED <<recipe, attempts, call>>

\* bot.py:663-677: the except branch of handle_url sends its notice
ExceptNotice(r) ==
    /\ pc[r] = "except"
    /\ Say(r, "error_msg")
    /\ pc' = [pc EXCEPT ![r] = "except_fallback"]
    /\ UNCHANGED <<cfg, quota, req, current_usage, fetchCalls, fs, opts, ret,
                   error_msg, fetched, md>>
    /\ UNCHANGED <<recipe, attempts, call>>

\* bot.py:679-684
ExceptFallback(r) ==
    /\ pc[r] = "except_fallback"
    /\ Say(r, "fallback_md")
    /\ pc' = [pc EXCEPT ![r] = "done"]
    /\ UNCHANGED <<cfg, quota, req, current_usage, fetchCalls, fs, opts, ret,
                   error_msg, fetched, md>>
    /\ UNCHANGED <<recipe, attempts, call>>

(***************************************************************************)
(* Faults of the machine the bot runs on and of the transport.             *)
(***************************************************************************)
\* bot.py:294: tempfile.mkdtemp raises; it stands before the try, so the
\* exception leaves _sync_download and reaches the except of handle_url.
MkdtempRaises(r) ==
    /\ pc[r] = "download"
    /\ fetchCalls' = [fetchCalls EXCEPT ![r] = @ + 1]
    /\ pc' = [pc EXCEPT ![r] = "except"]
    /\ UNCHANGED <<cfg, quota, req, current_usage, sent, fs, opts, ret, error_msg, fetched, md>>
    /\ UNCHANGED <<recipe, attempts, call>>

\* bot.py:370: rmtree(ignore_errors=True) meets an error and leaves the tree
RmtreeFails(r) ==
    /\ pc[r] = "sd_finally"
    /\ pc' = [pc EXCEPT ![r] = "returned"]
    /\ UNCHANGED <<cfg, quota, req, current_usage, fetchCalls, sent, fs, opts,
                   ret, error_msg, fetched, md>>
    /\ UNCHANGED <<recipe, attempts, call>>

\* bot.py:622: reply_video raises
SendVideoRaises(r) ==
    /\ pc[r] = "send_video"
    /\ pc' = [pc EXCEPT ![r] = "except"]
    /\ UNCHANGED <<cfg, quota, req, current_usage, fetchCalls, sent, fs, opts,
                   ret, error_msg, fetched, md>>
    /\ UNCHANGED <<recipe, attempts, call>>

\* bot.py:650: reply_text raises
SendRecipeRaises(r) ==
    /\ pc[r] = "send_recipe"
    /\ pc' = [pc EXCEPT ![r] = "except"]
    /\ UNCHANGED <<cfg, quota, req, current_usage, fetchCalls, sent, fs, opts,
                   ret, error_msg, fetched, md>>
    /\ UNCHANGED <<recipe, attempts, call>>

\* bot.py:661: video_path.unlink raises, after the text was sent and the
\* usage counted; the file stays and the except branch is entered.
UnlinkRaises(r) ==
    /\ pc[r] = "send_recipe"
    /\ Say(r, md[r])
    /\ quota' = CommitQuota(quota, req[r].uid)
    /\ pc' = [pc EXCEPT ![r] = "except"]
    /\ UNCHANGED <<cfg, req, current_usage, fetchCalls, fs, opts, ret, error_msg,
                   fetched, md>>
    /\ UNCHANGED <<recipe, attempts, call>>

Next ==
    \E r \in Requests :
        \/ \E uid \in UserIds, url \in HandlerUrls : Receive(r, uid, url)
        \/ SendProgress(r)
        \/ Classify(r)
        \/ CallDownload(r)
        \/ \E out \in YdlOutcomes : SyncDownloadExtract(r, out)
        \/ SyncDownloadFinally(r)
        \/ CheckDownload(r)
        \/ SendFailFallback(r)

\* The bot on a machine whose filesystem works and a transport that delivers.
Spec == Init /\ [][Next]_vars

NextFaults ==
    \/ Next
    \/ \E r \in Requests :
        \/ MkdtempRaises(r)
        \/ RmtreeFails(r)
        \/ TooBigFallback(r)
        \/ SendVideo(r)
        \/ SendVideoRaises(r)
        \/ \E out \in RecipeOutcomes : ExtractRecipe(r, out)
        \/ SendRecipe(r)
        \/ SendRecipeRaises(r)
        \/ UnlinkRaises(r)
        \/ ExceptNotice(r)
        \/ ExceptFallback(r)

\* The bot where, besides, local operations may fail.
SpecFaults == Init /\ [][NextFaults]_vars

(***************************************************************************)
(* The pure functions, each called once on an argument chosen at the       *)
(* start: call holds the name, the argument and, once done, the result.    *)
(***************************************************************************)
NewCall(fn, arg) == [fn |-> fn, arg |-> arg, done |-> FALSE, res |-> None]

Return(v) ==
    /\ ~call.done
    /\ call' = [call EXCEPT !.done = TRUE, !.res = v]
    /\ UNCHANGED handlerVars

CallIsSupportedUrl ==
    /\ call.fn = "is_supported_url"
    /\ Return(is_supported_url(UrlOf(call.arg)))

CallGetYdlOpts ==
    /\ call.fn = "get_ydl_opts"
    /\ Return(get_ydl_opts(UrlOf(call.arg), cfg, 1))

InitUrl ==
    /\ HandlerInit
    /\ call \in {NewCall(fn, p) : fn \in {"is_supported_url", "get_ydl_opts"},
                                  p \in UrlParts}

NextUrl == CallIsSupportedUrl \/ CallGetYdlOpts

\* is_supported_url and get_ydl_opts on one URL
SpecUrl == InitUrl /\ [][NextUrl]_vars

CallParseRecipeBlocks ==
    /\ call.fn = "parse_recipe_blocks"
    /\ Return(parse_recipe_blocks(call.arg.text))

CallFormatRecipeMarkdown ==
    /\ call.fn = "format_recipe_markdown"
    /\ Return(format_recipe_markdown(call.arg.blocks, call.arg.url,
                                     call.arg.duration))

\* blocks rendered and the rendered text parsed
CallFormatThenParse ==
    /\ call.fn = "format_then_parse"
    /\ Return(parse_recipe_blocks(
                  format_recipe_markdown(call.arg.blocks, << >>, << >>)))

InitText ==
    /\ HandlerInit
    /\ cfg.content = {}
    /\ call \in {NewCall("parse_recipe_blocks",
                         [blocks |-> b, text |-> WellFormedText(b)]) :
                     b \in BlocksIn}
               \cup {NewCall("format_recipe_markdown",
                             [blocks |-> b, url |-> u, duration |-> d]) :
                         b \in BlocksIn \cup LongBlocks, u \in {<< >>, SOURCE_URL},
                         d \in {<< >>, DURATION_LABEL}}
               \cup {NewCall("format_then_parse", [blocks |-> b]) :
                         b \in BlocksIn}

NextText ==
    CallParseRecipeBlocks \/ CallFormatRecipeMarkdown \/ CallFormatThenParse

\* parse_recipe_blocks and format_recipe_markdown on one recipe
SpecText == InitText /\ [][NextText]_vars

(***************************************************************************)
(* Vocabulary of the properties.                                           *)
(***************************************************************************)
Arrived(r)  == pc[r] # "idle"
InFlight(r) == pc[r] \notin {"idle", "done"}
\* the handler is past the quota check of bot.py:529-536
PastCheck(r) == pc[r] \notin {"idle", "start", "classify"}
\* _sync_download stands at its return, its locals still in view
AtReturn(r) == pc[r] = "returned"
\* the quota check of this request found the limit reached
Denied(r) == req[r].uid # OWNER_ID /\ current_usage[r] >= FREE_LIMIT
\* the messages of a request other than the progress note and the video
Notices(r) == SelectSeq(sent[r], LAMBDA m : m \notin {"progress", "video"})
\* the request ran to its end: the video went out and the text after it
Completed(r) ==
    /\ pc[r] = "done"
    /\ Len(sent[r]) = 3
    /\ sent[r][2] = "video"
    /\ sent[r][3] \in {"recipe_md", "fallback_md"}
Aborted(r) == pc[r] = "done" /\ ~Completed(r)
\* the URLs of the requests that is_supported_url accepts
SupportedUrls == {u \in HandlerUrls : is_supported_url(u)}

(***************************************************************************)
(* C1.  handle_url lets a request go on to the download exactly when the   *)
(* user is the owner or the usage count it read is below FREE_LIMIT; a     *)
(* request of another user whose count has reached FREE_LIMIT ends with    *)
(* the limit notice and download_video is never called for it.             *)
(***************************************************************************)
C1_QuotaGate ==
    \A r \in Requests :
        (PastCheck(r) /\ req[r].url \in SupportedUrls) =>
            IF Denied(r)
            THEN /\ pc[r] = "done"
                 /\ sent[r] = <<"progress", "limit">>
                 /\ fetchCalls[r] = 0
            ELSE /\ "limit" \notin {sent[r][i] : i \in 1..Len(sent[r])}
                 /\ (pc[r] = "download" \/ fetchCalls[r] = 1)

\* a user who has used up the free limit was turned away
C1_Witness ==
    \E r \in Requests :
        /\ pc[r] = "done"
        /\ req[r].url \in SupportedUrls
        /\ Denied(r)
        /\ \E r2 \in Requests : r2 # r /\ fetchCalls[r2] = 1
                                      /\ req[r2].uid = req[r].uid

(***************************************************************************)
(* C2.  The stored usage count of a user never goes past FREE_LIMIT,       *)
(* whatever the interleaving of that user's requests.                      *)
(***************************************************************************)
C2_FreeUsedWithinLimit ==
    \A u \in DOMAIN quota : quota[u] <= FREE_LIMIT

(***************************************************************************)
(* C3.  At most one request of a requester is processed at a time: while   *)
(* an earlier request is in flight, no download is started for a later     *)
(* request of the same requester.                                          *)
(***************************************************************************)
C3_SingleFlight ==
    \A r1, r2 \in Requests :
        (r1 < r2 /\ Arrived(r2) /\ req[r1].uid = req[r2].uid) =>
            ~(InFlight(r1) /\ InFlight(r2) /\ fetchCalls[r2] > 0)

(***************************************************************************)
(* C4.  When handle_url has returned after a download was attempted, the   *)
(* downloaded file no longer exists.                                       *)
(***************************************************************************)
C4_AssetDeletedAtExit ==
    \A r \in Requests :
        (pc[r] = "done" /\ fetchCalls[r] > 0 /\ ret[r][1] # NoPath) =>
            ~Exists(fs, ret[r][1])

(***************************************************************************)
(* C5.  When _sync_download returns a path, the media file exists at that  *)
(* path at the moment of return, in its directory: the engine has cleaned  *)
(* up nothing.                                                             *)
(***************************************************************************)
C5_AssetHandedOver ==
    \A r \in Requests :
        (AtReturn(r) /\ ret[r][1] # NoPath) =>
            /\ Exists(fs, TempDir(r))
            /\ Exists(fs, ret[r][1])

(***************************************************************************)
(* C6.  A supported URL of a user with quota left, a fetch that succeeds   *)
(* and a file of at most 50 MB: the handler sends the video and then       *)
(* exactly one text message, the recipe or the fallback text.              *)
(***************************************************************************)
C6_VideoThenText ==
    \A r \in Requests :
        (/\ pc[r] = "done"
         /\ fetchCalls[r] = 1
         /\ fetched[r] > 0
         /\ fetched[r] <= MAX_VIDEO_BYTES) =>
            \/ sent[r] = <<"progress", "video", "recipe_md">>
            \/ sent[r] = <<"progress", "video", "fallback_md">>

C8_CookieFileRemoved ==
    \A r \in Requests :
        (AtReturn(r) /\ PlatformBranch(req[r].url) \in cfg.content) =>
            /\ opts[r].cookiefile = CookiePath(r)
            /\ ~Exists(fs, CookiePath(r))

(***************************************************************************)
(* C9.  A failed fetch hands its caller an error value, the class of the   *)
(* failure, besides the empty path and info.                               *)
(***************************************************************************)
C9_ErrorReturned ==
    \A r \in Requests :
        (AtReturn(r) /\ error_msg[r] # NoText) =>
            /\ Len(ret[r]) = 3
            /\ ret[r][3] = ClassifyDownloadError(error_msg[r])

RecipeTexts == {extract_recipe_from_video(out) : out \in RecipeOutcomes}
\* those that stand for a blank answer or a failed call, or in which
\* parse_recipe_blocks finds no title, no ingredient and no step
NoRecipeTexts ==
    {t \in RecipeTexts :
        \/ StartsWith(t, <<"emoji_robot">>)
        \/ LET blocks == parse_recipe_blocks(t)
           IN blocks.title = << >> /\ blocks.ingredients = << >>
              /\ blocks.steps = << >>}

C12_UnsupportedFailsFast ==
    \A r \in Requests :
        (PastCheck(r) /\ req[r].url \notin SupportedUrls) =>
            /\ pc[r] = "done"
            /\ sent[r] = <<"progress", "unsupported">>
            /\ fetchCalls[r] = 0
            /\ current_usage[r] = NotRead
            /\ md[r] = None

\* a user other than the owner sent a text that is no supported URL
C12_Witness ==
    \E r \in Requests :
        /\ pc[r] = "done"
        /\ req[r].uid # OWNER_ID
        /\ req[r].url \notin SupportedUrls
        /\ sent[r] = <<"progress", "unsupported">>

(***************************************************************************)
(* Vocabulary of the properties about URLs.                                *)
(***************************************************************************)
\* the platform whose host list (bot.py:445-451) holds the host
HostPlatform(host) ==
    IF host \in {S_instagram_com, S_www \o S_instagram_com} THEN "instagram"
    ELSE IF host \in {S_tiktok_com, S_www \o S_tiktok_com, S_vm_tiktok_com,
                      S_vt_tiktok_com} THEN "tiktok"
    ELSE IF host \in {S_youtube_com, S_www \o S_youtube_com, S_youtu_be,
                      S_www \o S_youtu_be} THEN "youtube"
    ELSE "none"

(***************************************************************************)
(* C13.  is_supported_url accepts a URL exactly when it has a scheme and   *)
(* its host is an Instagram host with /reel, /p/ or /tv/ in the path, or a *)
(* TikTok host, or a YouTube host that is youtu.be or comes with a         *)
(* /shorts/ path or with the path /watch and a v= parameter.               *)
(***************************************************************************)
C13_AcceptsExactly ==
    (call.fn = "is_supported_url" /\ call.done) =>
        LET p == call.arg
            h == HostPlatform(p.host)
        IN call.res <=>
              /\ p.scheme # << >>
              /\ \/ /\ h = "instagram"
                    /\ \/ Contains(p.path, S_reel)
                       \/ Contains(p.path, S_p)
                       \/ Contains(p.path, S_tv)
                 \/ h = "tiktok"
                 \/ /\ h = "youtube"
                    /\ \/ Contains(p.host, S_youtu_be)
                       \/ Contains(p.path, S_shorts)
                       \/ p.path = S_watch /\ Contains(p.query, S_v_eq)
\* the characters counted as punctuation at the end of a line
Punctuation == MD_RESERVED \cup {":", ",", ";", " "}

\* res is line with nothing but punctuation removed from its end
IsTrimOf(res, line) ==
    \E n \in 0..Len(line) :
        /\ res = SubSeq(line, 1, n)
        /\ \A i \in (n + 1)..Len(line) : line[i] \in Punctuation

\* the lines of got are the lines of given, in order, trimmed at the end only
LinesTrimmed(got, given) ==
    /\ Len(got) = Len(given)
    /\ \A k \in 1..Len(given) : IsTrimOf(got[k], given[k])

\* C14: for a text with well-formed section headers, parse_recipe_blocks
\* returns the title, every ingredient line and every step line in input
\* order, each the input line without its leading marker and its trailing
\* punctuation and otherwise unchanged (digits included), and the extra text;
\* an absent section gives an empty field.
C14_ParsesWellFormed ==
    (call.fn = "parse_recipe_blocks" /\ call.done) =>
        LET b == call.arg.blocks
        IN /\ call.res.title = b.title
           /\ LinesTrimmed(call.res.ingredients, b.ingredients)
           /\ LinesTrimmed(call.res.steps, b.steps)
           /\ call.res.extra = b.extra
\* the characters of the contents of blocks
BlockChars(b) ==
    {b.title[i] : i \in 1..Len(b.title)}
    \cup UNION {{b.ingredients[k][i] : i \in 1..Len(b.ingredients[k])} :
                   k \in 1..Len(b.ingredients)}
    \cup UNION {{b.steps[k][i] : i \in 1..Len(b.steps[k])} :
                   k \in 1..Len(b.steps)}
    \cup {b.extra[i] : i \in 1..Len(b.extra)}

\* blocks whose contents escaping leaves as they are
PlainBlocks == {b \in BlocksIn : BlockChars(b) \cap MD_RESERVED = {}}

\* C15: blocks rendered by format_recipe_markdown and parsed again by
\* parse_recipe_blocks come back equivalent: same title (up to letter case),
\* same ingredients, same steps, same extra.
C15_RenderThenParse ==
    (call.fn = "format_then_parse" /\ call.done
     /\ call.arg.blocks \in PlainBlocks) =>
        LET b == call.arg.blocks
        IN /\ Upper(call.res.title) = Upper(b.title)
           /\ call.res.ingredients = b.ingredients
           /\ call.res.steps = b.steps
           /\ call.res.extra = b.extra
\* the number of reserved characters of a string
ReservedIn(c) == Cardinality({i \in 1..Len(c) : c[i] \in MD_RESERVED})

\* c with a backslash put before each of its reserved characters
Escaped(c) ==
    LET R(i) == Cardinality({j \in 1..i : c[j] \in MD_RESERVED})
    IN IF ReservedIn(c) = 0 THEN c
       ELSE [n \in 1..(Len(c) + ReservedIn(c)) |->
                LET i == CHOOSE i \in 1..Len(c) :
                            \/ i + R(i) = n
                            \/ c[i] \in MD_RESERVED /\ i + R(i) - 1 = n
                IN IF i + R(i) = n THEN c[i] ELSE "\\"]

\* p is a run of consecutive characters of t
Occurs(p, t) ==
    \E i \in 1..(Len(t) - Len(p) + 1) : SubSeq(t, i, i + Len(p) - 1) = p

RECURSIVE SumReserved(_)
SumReserved(lines) ==
    IF lines = << >> THEN 0
    ELSE ReservedIn(Head(lines)) + SumReserved(Tail(lines))

\* the strings of a call of the renderer that are text to display: the
\* title, the ingredients, the steps, the extra, and the duration label in
\* its parentheses when the link is written with it
DisplayedStrings(arg) ==
    <<Upper(arg.blocks.title)>> \o arg.blocks.ingredients \o arg.blocks.steps
    \o <<arg.blocks.extra>>
    \o (IF arg.url # << >> /\ arg.duration # << >>
        THEN << <<"(">> \o arg.duration \o <<")">> >>
        ELSE << >>)

\* C16: in the output of format_recipe_markdown every reserved character of
\* the title, of an ingredient, of a step and of the extra text stands after
\* a backslash, and the markup the renderer writes itself (bold markers,
\* bullets, step numbers, the link around the source URL) carries no
\* backslash: the backslashes of the output are as many as the reserved
\* characters of the displayed strings, and each one stands before a
\* reserved character.
C16_EscapesContentOnly ==
    (call.fn = "format_recipe_markdown" /\ call.done) =>
        LET out  == call.res
            strs == DisplayedStrings(call.arg)
        IN /\ \A k \in 1..Len(strs) : Occurs(Escaped(strs[k]), out)
           /\ Cardinality({i \in 1..Len(out) : out[i] = "\\"})
                  = SumReserved(strs)
           /\ \A i \in 1..Len(out) :
                  out[i] = "\\" => i < Len(out) /\ out[i + 1] \in MD_RESERVED

\* a recipe with reserved characters in each of its fields was rendered
\* with its link and its duration
C16_Witness ==
    /\ call.fn = "format_recipe_markdown" /\ call.done
    /\ call.arg.blocks.title = T_soup_puree
    /\ call.arg.blocks.ingredients = <<I_flour, I_egg>>
    /\ call.arg.blocks.steps = <<P_mix, P_boil>>
    /\ call.arg.blocks.extra = E_serve
    /\ call.arg.url = SOURCE_URL /\ call.arg.duration = DURATION_LABEL
\* C17: whatever the blocks, the source URL and the duration label, the text
\* the renderer produces for the requester is no longer than the longest
\* message the transport takes.
C17_FitsMessage ==
    (call.fn = "format_recipe_markdown" /\ call.done) =>
        Len(call.res) <= MAX_MESSAGE_LENGTH
\* C18: the format specifications are tried one at a time, in order, until
\* one succeeds, and the failure surfaced is that of the last one: a download
\* that returns with a failure has gone through one attempt for each
\* specification of the ladder.
C18_LadderTriedToItsEnd ==
    \A r \in Requests :
        (AtReturn(r) /\ error_msg[r] # NoText) =>
            attempts[r] = Len(FormatLadder(opts[r].platform))
\* C19: a downloaded video longer than the ceiling is rejected after the
\* download: it is never sent, the request consumes no quota, and once the
\* request is over its file is gone.
C19_LongVideoRejected ==
    \A r \in Requests :
        (PastCheck(r) /\ ret[r][2].duration > MAX_DURATION) =>
            /\ \A i \in 1..Len(sent[r]) : sent[r][i] # "video"
            /\ pc[r] = "done" =>
                  /\ ~Exists(fs, ret[r][1])
                  /\ get_quota_usage(quota, req[r].uid) <= current_usage[r]
\* the URLs is_supported_url accepts
SupportedParts == {p \in UrlParts : is_supported_url(UrlOf(p))}

\* C20: the cookies and the extractor options of a platform go into the
\* options only of a URL whose host is of that platform, and only when
\* cookies are configured for it: a supported URL of one platform's host
\* never gets the branch or the cookies of another platform, and gets no
\* cookiefile when nothing is configured.
C20_CookiesOfOwnPlatform ==
    (call.fn = "get_ydl_opts" /\ call.done /\ call.arg \in SupportedParts
     /\ HostPlatform(call.arg.host) # "none") =>
        LET own == HostPlatform(call.arg.host)
        IN /\ call.res.platform \in {own, "none"}
           /\ call.res.cookiefile # NoPath =>
                  /\ call.res.platform = own
                  /\ own \in cfg.content \cup cfg.files
           /\ (cfg.content = {} /\ cfg.files = {}) =>
                  call.res.cookiefile = NoPath
\* the blocks b with each of its empty sections filled, so that the text
\* holds all four sections
WithAllSections(b) ==
    [title       |-> IF b.title = << >> THEN T_soup ELSE b.title,
     ingredients |-> IF b.ingredients = << >> THEN <<I_salt>> ELSE b.ingredients,
     steps       |-> IF b.steps = << >> THEN <<P_mix>> ELSE b.steps,
     extra       |-> IF b.extra = << >> THEN E_serve ELSE b.extra]

\* C21: the sections are parsed independently: the ingredients, the steps
\* and the extra text that parse_recipe_blocks returns for a text in which a
\* section stands are those it returns for the same section when all the
\* other sections stand around it.
C21_SectionsIndependent ==
    (call.fn = "parse_recipe_blocks" /\ call.done) =>
        LET b    == call.arg.blocks
            full == parse_recipe_blocks(WellFormedText(WithAllSections(b)))
        IN /\ b.ingredients # << >> => call.res.ingredients = full.ingredients
           /\ b.steps # << >> => call.res.steps = full.steps
           /\ b.extra # << >> => call.res.extra = full.extra
\* the section headers: a header word, its first letter in either case,
\* followed by a colon
SectionHeaders ==
    {w \o <<":">> : w \in {W_recept, W_ingredienty, W_prigotovlenie,
                            W_dopolnitelno}}
    \cup {Cap(w) \o <<":">> : w \in {W_recept, W_ingredienty, W_prigotovlenie,
                                      W_dopolnitelno}}

\* the texts handed to the handler that hold no section header
HeaderlessTexts ==
    {t \in RecipeTexts : \A h \in SectionHeaders : ~Contains(t, h)}

\* C22: a text without any section header, such as the answer prescribed
\* for a video without a recipe, parses to blocks with no title, no
\* ingredient and no step, and the handler sends the fallback text for it,
\* never a rendered recipe.
C22_NoHeaderNoRecipe ==
    \A r \in Requests :
        recipe[r] \in HeaderlessTexts =>
            /\ recipe[r] \in NoRecipeTexts
            /\ md[r] = "fallback_md"
\* the request went through all its stages: it has ended, with the
\* progress note, the video and the text as its only messages
Served(r) ==
    /\ pc[r] = "done"
    /\ sent[r] \in {<<"progress", "video", "recipe_md">>,
                    <<"progress", "video", "fallback_md">>}

\* C23: a request adds exactly one to the count of its user, once, and only
\* on the path where the video and the text were sent and no stage failed;
\* every other path, and every request of the owner, leaves the table as it
\* was: the count of a user is the number of their requests served so, and
\* the owner has no count.
C23_CountsServedRequests ==
    \A u \in UserIds :
        get_quota_usage(quota, u) =
            IF u = OWNER_ID THEN 0
            ELSE Cardinality({r \in Requests :
                                 Arrived(r) /\ req[r].uid = u /\ Served(r)})
====
